---------------------------- MODULE Spec2Model ----------------------------
(***************************************************************************)
(* A model of the Netnut crawler: the ProxyManager (proxy_manager.py), the *)
(* retry_with_tracking decorator and get_serp_results (scraper.py), and    *)
(* main (main.py), which maps the search terms onto a thread pool.         *)
(*                                                                         *)
(* Time is the value time.time() returns, in whole seconds.  The clock is  *)
(* read at the instants in Instants only.  The model starts once the       *)
(* modules are imported.                                                   *)
(***************************************************************************)
EXTENDS Integers, Sequences, FiniteSets, TLC

VARIABLES
    source,           \* the content of proxies.txt, or Missing
    main_pc,          \* where main() is
    proxies,          \* ProxyManager.proxies: a dict, kept in insertion order
    banned_proxies,   \* ProxyManager.banned_proxies: proxy -> unban time
    lock,             \* ProxyManager.lock: 0 when free, else the holder
    now,              \* the clock
    queue,            \* the executor's work queue: the terms not yet taken
    future,           \* term -> what became of the call made for it
    failed_searches,  \* RetryTracker.failed_searches
    pc,               \* thread -> where the thread is
    caller,           \* thread -> "task" or "driver": who called the manager
    task,             \* thread -> the search term it serves
    attempt,          \* thread -> `attempt` of retry_with_tracking.wrapper
    tries,            \* thread -> `tries` of dynamic_retry_decorator.wrapper
    proxy_key,        \* thread -> the proxy get_proxy returned last
    delay,            \* thread -> the last value of get_dynamic_delay()
    wake,             \* thread -> when its time.sleep(delay) ends
    err,              \* thread -> the exception in flight, or "none"
    runs,             \* term -> the calls of get_serp_results' body so far
    bans,             \* thread -> the proxies it banned in this attempt
    op                \* thread -> the method a driver called last

vars == <<source, main_pc, proxies, banned_proxies, lock, now, queue, future,
          failed_searches, pc, caller, task, attempt, tries, proxy_key, delay,
          wake, err, runs, bans, op>>

poolVars == <<proxies, banned_proxies>>

-----------------------------------------------------------------------------
(* Program constants *)

\* ban_proxy: ban_time = time.time() + 180
BanDuration == 180

\* dynamic_retry_decorator.wrapper: max_tries = 3
max_tries == 3

\* @retry_with_tracking(tries=10)
retry_tries == 10

(* Bounds *)

\* the clock value when the program starts (time.time() is a Unix time > 0)
Epoch == 1

\* the clock is read up to Slack seconds around the start and around the
\* instant a ban set at the start ends
Slack == 1

\* how many search terms main() maps (the program maps 50)
NumTasks == 2

\* max_workers of the ThreadPoolExecutor (the program uses at least 10)
NumWorkers == 1

\* how many times a driver calls record_failure
MaxRecords == 2

Offsets == (0 .. Slack) \cup ((BanDuration - Slack) .. (BanDuration + Slack))

Instants == {Epoch + d : d \in Offsets}

Max(a, b) == IF a >= b THEN a ELSE b

SetMin(S) == CHOOSE x \in S : \A y \in S : x <= y

-----------------------------------------------------------------------------
(* proxies.txt: a sequence of lines, each a sequence of characters *)

Missing == "missing"

Whitespace == {" ", "\n"}

ProxyA == <<"a">>
ProxyB == <<"b">>
ProxyC == <<"c">>
\* a proxy that is in no file
ProxyZ == <<"z">>

SrcEmpty == << >>
SrcBlank == << <<"\n">>, <<" ", "\n">> >>
SrcOne   == << <<"a", "\n">> >>
SrcTwo   == << <<"a", "\n">>, <<"\n">>, <<" ", "b", " ", "\n">>, <<"a">> >>
SrcThree == << <<"a", "\n">>, <<"b", "\n">>, <<"c", "\n">> >>

RECURSIVE lstrip(_)
lstrip(s) ==
    IF s = << >> \/ Head(s) \notin Whitespace THEN s ELSE lstrip(Tail(s))

RECURSIVE rstrip(_)
rstrip(s) ==
    IF s = << >> \/ s[Len(s)] \notin Whitespace
    THEN s
    ELSE rstrip(SubSeq(s, 1, Len(s) - 1))

\* str.strip()
strip(s) == rstrip(lstrip(s))

-----------------------------------------------------------------------------
(* A dict as a sequence of [key, val] in insertion order *)

DictKeys(d) == {d[i].key : i \in DOMAIN d}

DictGet(d, k) == (CHOOSE i \in DOMAIN d : d[i].key = k)

\* d[k] = v: a known key keeps its place, a new key goes last
DictSet(d, k, v) ==
    IF k \in DictKeys(d)
    THEN [i \in DOMAIN d |-> IF d[i].key = k THEN [key |-> k, val |-> v] ELSE d[i]]
    ELSE Append(d, [key |-> k, val |-> v])

DictVal(d, k) == d[DictGet(d, k)].val

\* {line.strip(): 0 for line in f if line.strip()}
RECURSIVE DictFromLines(_, _)
DictFromLines(lines, acc) ==
    IF lines = << >>
    THEN acc
    ELSE DictFromLines(Tail(lines),
                       IF strip(Head(lines)) # << >>
                       THEN DictSet(acc, strip(Head(lines)), 0)
                       ELSE acc)

\* read_proxies without the test for an empty dict
read_proxies_unchecked(src) ==
    IF src = Missing
    THEN [proxies |-> << >>, ok |-> FALSE]
    ELSE [proxies |-> DictFromLines(src, << >>), ok |-> TRUE]

\* read_proxies: the dict it leaves in self.proxies and what it returns
read_proxies(src) ==
    IF src = Missing
    THEN [proxies |-> << >>, ok |-> FALSE]
    ELSE [proxies |-> DictFromLines(src, << >>),
          ok      |-> DictFromLines(src, << >>) # << >>]

-----------------------------------------------------------------------------
(* ProxyManager: the bodies of its methods, as functions of the state *)

\* a ban that never runs out
IsAvailable_never_again(B, p, t) == p \notin DOMAIN B

\* proxy not in self.banned_proxies or time.time() > self.banned_proxies[proxy]
IsAvailable(B, p, t) == p \notin DOMAIN B \/ t > B[p]

\* the dict comprehension of get_proxy: the available proxies, in order
RECURSIVE available_proxies(_, _, _)
available_proxies(P, B, t) ==
    IF P = << >>
    THEN << >>
    ELSE IF IsAvailable(B, Head(P).key, t)
         THEN <<Head(P)>> \o available_proxies(Tail(P), B, t)
         ELSE available_proxies(Tail(P), B, t)

\* the last key, in order, whose value no other is below
least_used_proxy_last(d) ==
    d[CHOOSE i \in DOMAIN d :
        /\ \A j \in DOMAIN d : d[i].val <= d[j].val
        /\ \A j \in DOMAIN d : j > i => d[j].val > d[i].val].key

\* the first key, in order, whose value no other is above
least_used_proxy_most(d) ==
    d[CHOOSE i \in DOMAIN d :
        /\ \A j \in DOMAIN d : d[i].val >= d[j].val
        /\ \A j \in DOMAIN d : j < i => d[j].val < d[i].val].key

\* min(d, key=d.get): the first key, in order, whose value no other is below
least_used_proxy(d) ==
    d[CHOOSE i \in DOMAIN d :
        /\ \A j \in DOMAIN d : d[i].val <= d[j].val
        /\ \A j \in DOMAIN d : j < i => d[j].val > d[i].val].key

\* the proxy handed out is not marked as used
mark_used_forgotten(P, p, t) == P

\* get_proxy: self.proxies[least_used_proxy] = time.time()
mark_used(P, p, t) == DictSet(P, p, t)

\* get_dynamic_delay
get_dynamic_delay(B, t) ==
    IF DOMAIN B = {}
    THEN 0
    ELSE Max(0, SetMin({B[p] : p \in DOMAIN B}) - t)

\* ban_proxy: self.banned_proxies[proxy] = time.time() + 180
ban_time(t) == t + BanDuration

BanUpdate(B, p, t) ==
    [q \in DOMAIN B \cup {p} |-> IF q = p THEN ban_time(t) ELSE B[q]]

\* update_proxy without the test that the proxy is a known one
UpdateUsage_unchecked(P, p, t) == DictSet(P, p, t)

\* update_proxy: if proxy in self.proxies: self.proxies[proxy] = time.time()
UpdateUsage(P, p, t) == IF p \in DictKeys(P) THEN DictSet(P, p, t) ELSE P

-----------------------------------------------------------------------------
(* The threads *)

Threads == DOMAIN pc

None == << >>

EmptyDict == [x \in {} |-> 0]

\* main: search_terms, a list of distinct terms
search_terms == [i \in 1 .. NumTasks |-> i]

Terms == 1 .. NumTasks

\* what the external requests of one call of get_serp_results' body come to:
\*   get_transport_error   requests.get raises (get_access_keys re-raises it)
\*   keys_not_found        get_access_keys raises ValueError
\*   post_transport_error  requests.post raises
\*   not_json              response.json() raises: the body is no JSON
\*   json_not_dict         the body is JSON and not a dict
\*   write_error           the body is a JSON object, writing the file raises
\*   json_dict             the body is a JSON object, the file is written
Outcomes == {"get_transport_error", "keys_not_found", "post_transport_error",
             "not_json", "json_not_dict", "write_error", "json_dict"}

\* the loop gives up one attempt early
IsLastAttempt_early(a) == a = retry_tries - 1

\* retry_with_tracking.wrapper: if attempt == tries
IsLastAttempt(a) == a = retry_tries

\* where a method of the manager returns to
Return(w, next) == IF caller[w] = "driver" THEN "ready" ELSE next

mainVars == <<source, main_pc, queue>>
callVars == <<task, attempt, caller, op>>

-----------------------------------------------------------------------------
(* main.py *)

\* main: if not proxy_manager.read_proxies("proxies.txt"): return
MainReadProxies ==
    /\ main_pc = "start"
    /\ proxies' = read_proxies(source).proxies
    /\ main_pc' = IF read_proxies(source).ok THEN "loaded" ELSE "exited"
    /\ UNCHANGED <<source, banned_proxies, lock, now, queue, future,
                   failed_searches, pc, caller, task, attempt, tries,
                   proxy_key, delay, wake, err, runs, bans, op>>

\* main: executor.map(...) submits one call per search term, in order
MainMap ==
    /\ main_pc = "loaded"
    /\ queue' = search_terms
    /\ future' = [t \in Terms |-> "pending"]
    /\ main_pc' = "join"
    /\ UNCHANGED <<source, proxies, banned_proxies, lock, now,
                   failed_searches, pc, caller, task, attempt, tries,
                   proxy_key, delay, wake, err, runs, bans, op>>

\* a worker thread of the executor takes the next call off the queue
WorkerTake(w) ==
    /\ main_pc = "join"
    /\ pc[w] = "idle"
    /\ queue # << >>
    /\ task' = [task EXCEPT ![w] = Head(queue)]
    /\ queue' = Tail(queue)
    /\ future' = [future EXCEPT ![Head(queue)] = "running"]
    /\ attempt' = [attempt EXCEPT ![w] = 0]
    /\ pc' = [pc EXCEPT ![w] = "call"]
    /\ UNCHANGED <<source, main_pc, proxies, banned_proxies, lock, now,
                   failed_searches, caller, tries, proxy_key, delay, wake,
                   err, runs, bans, op>>

\* leaving the `with` block without waiting for the workers
MainJoin_nowait ==
    /\ main_pc = "join"
    /\ main_pc' = "joined"
    /\ UNCHANGED <<source, proxies, banned_proxies, lock, now, queue, future,
                   failed_searches, pc, caller, task, attempt, tries,
                   proxy_key, delay, wake, err, runs, bans, op>>

\* main: leaving the `with` block joins the workers (shutdown(wait=True))
MainJoin ==
    /\ main_pc = "join"
    /\ queue = << >>
    /\ \A w \in Threads : pc[w] = "idle"
    /\ main_pc' = "joined"
    /\ UNCHANGED <<source, proxies, banned_proxies, lock, now, queue, future,
                   failed_searches, pc, caller, task, attempt, tries,
                   proxy_key, delay, wake, err, runs, bans, op>>

-----------------------------------------------------------------------------
(* proxy_manager.py *)

\* get_proxy: with self.lock
GetProxyLock(w) ==
    /\ pc[w] = "get_lock"
    /\ lock = 0
    /\ lock' = w
    /\ pc' = [pc EXCEPT ![w] = "get_body"]
    /\ UNCHANGED <<mainVars, callVars, poolVars, now, future, failed_searches,
                   tries, proxy_key, delay, wake, err, runs, bans, op>>

\* get_proxy with a lock that is released only when a proxy is returned
GetProxyBody_keeps_lock(w) ==
    /\ pc[w] = "get_body"
    /\ LET av == available_proxies(proxies, banned_proxies, now) IN
       IF av = << >>
       THEN /\ err' = [err EXCEPT ![w] = "no_available_proxies"]
            /\ pc' = [pc EXCEPT ![w] = "retry"]
            /\ UNCHANGED <<proxies, proxy_key, lock>>
       ELSE /\ proxies' = mark_used(proxies, least_used_proxy(av), now)
            /\ proxy_key' = [proxy_key EXCEPT ![w] = least_used_proxy(av)]
            /\ err' = [err EXCEPT ![w] = "none"]
            /\ pc' = [pc EXCEPT ![w] = Return(w, "exec")]
            /\ lock' = 0
    /\ UNCHANGED <<mainVars, callVars, banned_proxies, now, future,
                   failed_searches, tries, delay, wake, runs, bans>>

\* get_proxy marking the least used proxy before it looks at the bans
GetProxyBody_marks_first(w) ==
    /\ pc[w] = "get_body"
    /\ lock' = 0
    /\ LET av == available_proxies(proxies, banned_proxies, now) IN
       IF av = << >>
       THEN /\ err' = [err EXCEPT ![w] = "no_available_proxies"]
            /\ pc' = [pc EXCEPT ![w] = "retry"]
            /\ proxies' = mark_used(proxies, least_used_proxy(proxies), now)
            /\ UNCHANGED proxy_key
       ELSE /\ proxies' = mark_used(proxies, least_used_proxy(av), now)
            /\ proxy_key' = [proxy_key EXCEPT ![w] = least_used_proxy(av)]
            /\ err' = [err EXCEPT ![w] = "none"]
            /\ pc' = [pc EXCEPT ![w] = Return(w, "exec")]
    /\ UNCHANGED <<mainVars, callVars, banned_proxies, now, future,
                   failed_searches, tries, delay, wake, runs, bans>>

\* get_proxy: the body under the lock; leaving it releases the lock
GetProxyBody(w) ==
    /\ pc[w] = "get_body"
    /\ lock' = 0
    /\ LET av == available_proxies(proxies, banned_proxies, now) IN
       IF av = << >>
       THEN /\ err' = [err EXCEPT ![w] = "no_available_proxies"]
            /\ pc' = [pc EXCEPT ![w] = "retry"]
            /\ UNCHANGED <<proxies, proxy_key>>
       ELSE /\ proxies' = mark_used(proxies, least_used_proxy(av), now)
            /\ proxy_key' = [proxy_key EXCEPT ![w] = least_used_proxy(av)]
            /\ err' = [err EXCEPT ![w] = "none"]
            /\ pc' = [pc EXCEPT ![w] = Return(w, "exec")]
    /\ UNCHANGED <<mainVars, callVars, banned_proxies, now, future,
                   failed_searches, tries, delay, wake, runs, bans>>

\* get_proxy without its decorator: the first failure is raised to the caller
Retry_unwrapped(w) ==
    /\ pc[w] = "retry"
    /\ tries' = [tries EXCEPT ![w] = tries[w] + 1]
    /\ pc' = [pc EXCEPT ![w] = Return(w, "record")]
    /\ UNCHANGED <<mainVars, callVars, poolVars, lock, now, future,
                   failed_searches, proxy_key, delay, wake, err, runs, bans>>

\* a wait computed after the first failure only: the second sleep is given
\* what the first has left of it
Retry_stale(w) ==
    /\ pc[w] = "retry"
    /\ tries' = [tries EXCEPT ![w] = tries[w] + 1]
    /\ IF tries[w] + 1 = max_tries
       THEN /\ pc' = [pc EXCEPT ![w] = Return(w, "record")]
            /\ UNCHANGED <<delay, wake>>
       ELSE /\ delay' = [delay EXCEPT ![w] =
                           IF tries[w] = 0
                           THEN get_dynamic_delay(banned_proxies, now)
                           ELSE delay[w]]
            /\ wake' = [wake EXCEPT ![w] = now + delay'[w]]
            /\ pc' = [pc EXCEPT ![w] = "sleep"]
    /\ UNCHANGED <<mainVars, callVars, poolVars, lock, now, future,
                   failed_searches, proxy_key, err, runs, bans>>

\* a decorator that gives get_proxy a 4th try
Retry_four_tries(w) ==
    /\ pc[w] = "retry"
    /\ tries' = [tries EXCEPT ![w] = tries[w] + 1]
    /\ IF tries[w] + 1 = max_tries + 1
       THEN /\ pc' = [pc EXCEPT ![w] = Return(w, "record")]
            /\ UNCHANGED <<delay, wake>>
       ELSE /\ delay' = [delay EXCEPT ![w] = get_dynamic_delay(banned_proxies, now)]
            /\ wake' = [wake EXCEPT ![w] = now + get_dynamic_delay(banned_proxies, now)]
            /\ pc' = [pc EXCEPT ![w] = "sleep"]
    /\ UNCHANGED <<mainVars, callVars, poolVars, lock, now, future,
                   failed_searches, proxy_key, err, runs, bans>>

\* dynamic_retry_decorator.wrapper: the except block
Retry(w) ==
    /\ pc[w] = "retry"
    /\ tries' = [tries EXCEPT ![w] = tries[w] + 1]
    /\ IF tries[w] + 1 = max_tries
       THEN /\ pc' = [pc EXCEPT ![w] = Return(w, "record")]
            /\ UNCHANGED <<delay, wake>>
       ELSE /\ delay' = [delay EXCEPT ![w] = get_dynamic_delay(banned_proxies, now)]
            /\ wake' = [wake EXCEPT ![w] = now + get_dynamic_delay(banned_proxies, now)]
            /\ pc' = [pc EXCEPT ![w] = "sleep"]
    /\ UNCHANGED <<mainVars, callVars, poolVars, lock, now, future,
                   failed_searches, proxy_key, err, runs, bans>>

\* dynamic_retry_decorator.wrapper: time.sleep(delay) returns, the loop goes on
\* (delay is not read again before it is next assigned)
Wake(w) ==
    /\ pc[w] = "sleep"
    /\ now >= wake[w]
    /\ pc' = [pc EXCEPT ![w] = "get_lock"]
    /\ err' = [err EXCEPT ![w] = "none"]
    /\ delay' = [delay EXCEPT ![w] = 0]
    /\ wake' = [wake EXCEPT ![w] = 0]
    /\ UNCHANGED <<mainVars, callVars, poolVars, lock, now, future,
                   failed_searches, tries, proxy_key, runs, bans>>

\* ban_proxy: with self.lock
BanLock(w) ==
    /\ pc[w] = "ban_lock"
    /\ lock = 0
    /\ lock' = w
    /\ pc' = [pc EXCEPT ![w] = "ban_body"]
    /\ UNCHANGED <<mainVars, callVars, poolVars, now, future, failed_searches,
                   tries, proxy_key, delay, wake, err, runs, bans, op>>

\* ban_proxy: the body under the lock
BanBody(w) ==
    /\ pc[w] = "ban_body"
    /\ lock' = 0
    /\ banned_proxies' = BanUpdate(banned_proxies, proxy_key[w], now)
    /\ bans' = [bans EXCEPT ![w] = bans[w] \cup {proxy_key[w]}]
    /\ pc' = [pc EXCEPT ![w] = Return(w, "record")]
    /\ UNCHANGED <<mainVars, callVars, proxies, now, future, failed_searches,
                   tries, proxy_key, delay, wake, err, runs>>

\* update_proxy: with self.lock
UpdateLock(w) ==
    /\ pc[w] = "update_lock"
    /\ lock = 0
    /\ lock' = w
    /\ pc' = [pc EXCEPT ![w] = "update_body"]
    /\ UNCHANGED <<mainVars, callVars, poolVars, now, future, failed_searches,
                   tries, proxy_key, delay, wake, err, runs, bans, op>>

\* update_proxy: the body under the lock; in a task, get_serp_results then
\* returns and the call made for the term is done
UpdateBody(w) ==
    /\ pc[w] = "update_body"
    /\ lock' = 0
    /\ proxies' = UpdateUsage(proxies, proxy_key[w], now)
    /\ pc' = [pc EXCEPT ![w] = Return(w, "idle")]
    /\ future' = IF caller[w] = "task"
                 THEN [future EXCEPT ![task[w]] = "done"]
                 ELSE future
    /\ UNCHANGED <<mainVars, callVars, banned_proxies, now, failed_searches,
                   tries, proxy_key, delay, wake, err, runs, bans, op>>

-----------------------------------------------------------------------------
(* scraper.py *)

\* retry_with_tracking.wrapper: func(*args, **kwargs), one call of the body
\* of get_serp_results, which starts with proxy_manager.get_proxy()
CallBody(w) ==
    /\ pc[w] = "call"
    /\ runs' = [runs EXCEPT ![task[w]] = runs[task[w]] + 1]
    /\ tries' = [tries EXCEPT ![w] = 0]
    /\ proxy_key' = [proxy_key EXCEPT ![w] = None]
    /\ err' = [err EXCEPT ![w] = "none"]
    /\ bans' = [bans EXCEPT ![w] = {}]
    /\ pc' = [pc EXCEPT ![w] = "get_lock"]
    /\ UNCHANGED <<mainVars, callVars, poolVars, lock, now, future,
                   failed_searches, delay, wake>>

\* a body that goes on to update_proxy when the file could not be written
Execute_touch_on_failure(w) ==
    /\ pc[w] = "exec"
    /\ \E o \in Outcomes :
         /\ err' = [err EXCEPT ![w] = IF o = "json_dict" THEN "none" ELSE o]
         /\ pc' = [pc EXCEPT ![w] =
                     CASE o \in {"json_dict", "write_error"} -> "update_lock"
                       [] o = "json_not_dict" -> "ban_lock"
                       [] OTHER               -> "record"]
    /\ UNCHANGED <<mainVars, callVars, poolVars, lock, now, future,
                   failed_searches, tries, proxy_key, delay, wake, runs, bans>>

\* get_serp_results: get_access_keys(proxy), requests.post, response.json(),
\* the check of the answer and the writing of the file, up to the call of
\* ban_proxy or update_proxy
Execute(w) ==
    /\ pc[w] = "exec"
    /\ \E o \in Outcomes :
         /\ err' = [err EXCEPT ![w] = IF o = "json_dict" THEN "none" ELSE o]
         /\ pc' = [pc EXCEPT ![w] =
                     CASE o = "json_dict"     -> "update_lock"
                       [] o = "json_not_dict" -> "ban_lock"
                       [] OTHER               -> "record"]
    /\ UNCHANGED <<mainVars, callVars, poolVars, lock, now, future,
                   failed_searches, tries, proxy_key, delay, wake, runs, bans>>

\* record_failure: if search_value not in self.failed_searches
RecordCheck(w) ==
    /\ pc[w] = "record"
    /\ pc' = [pc EXCEPT ![w] =
                IF task[w] \in DOMAIN failed_searches THEN "append" ELSE "create"]
    /\ UNCHANGED <<mainVars, callVars, poolVars, lock, now, future,
                   failed_searches, tries, proxy_key, delay, wake, err, runs,
                   bans>>

\* record_failure: self.failed_searches[search_value] = []
RecordCreate(w) ==
    /\ pc[w] = "create"
    /\ failed_searches' =
         [t \in DOMAIN failed_searches \cup {task[w]} |->
            IF t = task[w] THEN << >> ELSE failed_searches[t]]
    /\ pc' = [pc EXCEPT ![w] = "append"]
    /\ UNCHANGED <<mainVars, callVars, poolVars, lock, now, future, tries,
                   proxy_key, delay, wake, err, runs, bans>>

\* record_failure: the append (an entry is modelled by its attempt number;
\* nothing reads its timestamp and error text), then the rest of the except
\* block of retry_with_tracking.wrapper: raise after the last attempt, else
\* the next turn of the loop.  Called by a driver, record_failure returns.
RecordAppend(w) ==
    /\ pc[w] = "append"
    /\ failed_searches' =
         [failed_searches EXCEPT ![task[w]] =
            Append(@, [attempt |-> attempt[w] + 1])]
    /\ IF caller[w] = "driver"
       THEN /\ attempt' = [attempt EXCEPT ![w] = attempt[w] + 1]
            /\ pc' = [pc EXCEPT ![w] = "ready"]
            /\ UNCHANGED future
       ELSE IF IsLastAttempt(attempt[w])
       THEN /\ future' = [future EXCEPT ![task[w]] = "propagated"]
            /\ pc' = [pc EXCEPT ![w] = "idle"]
            /\ UNCHANGED attempt
       ELSE /\ attempt' = [attempt EXCEPT ![w] = attempt[w] + 1]
            /\ pc' = [pc EXCEPT ![w] = "call"]
            /\ UNCHANGED future
    /\ UNCHANGED <<mainVars, task, caller, op, poolVars, lock, now, tries,
                   proxy_key, delay, wake, err, runs, bans>>

-----------------------------------------------------------------------------
(* A driver: a thread that calls the methods of the manager in any order *)

DriverArgs == DictKeys(proxies) \cup {ProxyZ}

DrvGetProxy(w) ==
    /\ pc[w] = "ready"
    /\ op' = [op EXCEPT ![w] = "get_proxy"]
    /\ tries' = [tries EXCEPT ![w] = 0]
    /\ err' = [err EXCEPT ![w] = "none"]
    /\ proxy_key' = [proxy_key EXCEPT ![w] = None]
    /\ pc' = [pc EXCEPT ![w] = "get_lock"]
    /\ UNCHANGED <<mainVars, task, attempt, caller, poolVars, lock, now,
                   future, failed_searches, delay, wake, runs, bans>>

DrvUpdateProxy(w) ==
    /\ pc[w] = "ready"
    /\ \E p \in DriverArgs : proxy_key' = [proxy_key EXCEPT ![w] = p]
    /\ op' = [op EXCEPT ![w] = "update_proxy"]
    /\ err' = [err EXCEPT ![w] = "none"]
    /\ pc' = [pc EXCEPT ![w] = "update_lock"]
    /\ UNCHANGED <<mainVars, task, attempt, caller, poolVars, lock, now,
                   future, failed_searches, tries, delay, wake, runs, bans>>

DrvBanProxy(w) ==
    /\ pc[w] = "ready"
    /\ \E p \in DictKeys(proxies) : proxy_key' = [proxy_key EXCEPT ![w] = p]
    /\ op' = [op EXCEPT ![w] = "ban_proxy"]
    /\ err' = [err EXCEPT ![w] = "none"]
    /\ bans' = [bans EXCEPT ![w] = {}]
    /\ pc' = [pc EXCEPT ![w] = "ban_lock"]
    /\ UNCHANGED <<mainVars, task, attempt, caller, poolVars, lock, now,
                   future, failed_searches, tries, delay, wake, runs>>

DrvGetDynamicDelay(w) ==
    /\ pc[w] = "ready"
    /\ op' = [op EXCEPT ![w] = "get_dynamic_delay"]
    /\ err' = [err EXCEPT ![w] = "none"]
    /\ delay' = [delay EXCEPT ![w] = get_dynamic_delay(banned_proxies, now)]
    /\ UNCHANGED <<mainVars, task, attempt, caller, poolVars, lock, now,
                   future, failed_searches, pc, tries, proxy_key, wake, runs,
                   bans>>

\* record_failure(search_value, attempt, error), with the number of the call
\* as the attempt
DrvRecordFailure(w) ==
    /\ pc[w] = "ready"
    /\ attempt[w] < MaxRecords
    /\ \E t \in Terms : task' = [task EXCEPT ![w] = t]
    /\ op' = [op EXCEPT ![w] = "record_failure"]
    /\ pc' = [pc EXCEPT ![w] = "record"]
    /\ UNCHANGED <<mainVars, attempt, caller, poolVars, lock, now, future,
                   failed_searches, tries, proxy_key, delay, wake, err, runs,
                   bans>>

-----------------------------------------------------------------------------
(* The clock *)

\* the clock reaches the next of the instants it is read at
Tick ==
    /\ \E t \in Instants : t > now
    /\ now' = SetMin({t \in Instants : t > now})
    /\ UNCHANGED <<mainVars, callVars, poolVars, lock, future,
                   failed_searches, pc, tries, proxy_key, delay, wake, err,
                   runs, bans>>

\* past the last of them, the clock reaches the end of the sleep of w
SleepTick(w) ==
    /\ pc[w] = "sleep"
    /\ wake[w] > now
    /\ \A t \in Instants : t <= now
    /\ now' = wake[w]
    /\ UNCHANGED <<mainVars, callVars, poolVars, lock, future,
                   failed_searches, pc, tries, proxy_key, delay, wake, err,
                   runs, bans>>

-----------------------------------------------------------------------------
(* Specifications *)

InitCommon ==
    /\ banned_proxies = EmptyDict
    /\ lock = 0
    /\ now = Epoch
    /\ queue = << >>
    /\ future = [t \in Terms |-> "none"]
    /\ failed_searches = EmptyDict
    /\ runs = [t \in Terms |-> 0]

InitThreads(T, c, at) ==
    /\ pc = [w \in T |-> at]
    /\ caller = [w \in T |-> c]
    /\ task = [w \in T |-> 0]
    /\ attempt = [w \in T |-> 0]
    /\ tries = [w \in T |-> 0]
    /\ proxy_key = [w \in T |-> None]
    /\ delay = [w \in T |-> 0]
    /\ wake = [w \in T |-> 0]
    /\ err = [w \in T |-> "none"]
    /\ bans = [w \in T |-> {}]
    /\ op = [w \in T |-> "none"]

\* the files main() is run on
ProgramSources == {Missing, SrcEmpty, SrcBlank, SrcOne, SrcTwo}

\* The program: main() on a file, NumWorkers threads, NumTasks search terms
Init ==
    /\ InitCommon
    /\ source \in ProgramSources
    /\ main_pc = "start"
    /\ proxies = << >>
    /\ InitThreads(1 .. NumWorkers, "task", "idle")

TaskStep(w) ==
    \/ WorkerTake(w)
    \/ CallBody(w)
    \/ GetProxyLock(w)
    \/ GetProxyBody(w)
    \/ Retry(w)
    \/ Wake(w)
    \/ Execute(w)
    \/ BanLock(w)
    \/ BanBody(w)
    \/ UpdateLock(w)
    \/ UpdateBody(w)
    \/ RecordCheck(w)
    \/ RecordCreate(w)
    \/ RecordAppend(w)

Next ==
    \/ MainReadProxies
    \/ MainMap
    \/ MainJoin
    \/ \E w \in Threads : WorkerTake(w)
    \/ \E w \in Threads : CallBody(w)
    \/ \E w \in Threads : GetProxyLock(w)
    \/ \E w \in Threads : GetProxyBody(w)
    \/ \E w \in Threads : Retry(w)
    \/ \E w \in Threads : Wake(w)
    \/ \E w \in Threads : Execute(w)
    \/ \E w \in Threads : BanLock(w)
    \/ \E w \in Threads : BanBody(w)
    \/ \E w \in Threads : UpdateLock(w)
    \/ \E w \in Threads : UpdateBody(w)
    \/ \E w \in Threads : RecordCheck(w)
    \/ \E w \in Threads : RecordCreate(w)
    \/ \E w \in Threads : RecordAppend(w)
    \/ Tick
    \/ \E w \in Threads : SleepTick(w)

Spec == Init /\ [][Next]_vars

\* The manager alone: loaded from a file, its methods called by one driver
InitPool ==
    /\ InitCommon
    /\ source = SrcTwo
    /\ main_pc = "driver"
    /\ proxies = read_proxies(source).proxies
    /\ InitThreads({1}, "driver", "ready")

NextPool ==
    \/ \E w \in Threads : DrvGetProxy(w)
    \/ \E w \in Threads : DrvUpdateProxy(w)
    \/ \E w \in Threads : DrvBanProxy(w)
    \/ \E w \in Threads : DrvGetDynamicDelay(w)
    \/ \E w \in Threads : GetProxyLock(w)
    \/ \E w \in Threads : GetProxyBody(w)
    \/ \E w \in Threads : Retry(w)
    \/ \E w \in Threads : Wake(w)
    \/ \E w \in Threads : BanLock(w)
    \/ \E w \in Threads : BanBody(w)
    \/ \E w \in Threads : UpdateLock(w)
    \/ \E w \in Threads : UpdateBody(w)
    \/ Tick

SpecPool == InitPool /\ [][NextPool]_vars

\* Three threads, each in one call of get_proxy, on a pool of three proxies
\* that were never used and are not banned
InitAcquire ==
    /\ InitCommon
    /\ source = SrcThree
    /\ main_pc = "driver"
    /\ proxies = read_proxies(source).proxies
    /\ InitThreads({1, 2, 3}, "driver", "get_lock")

NextAcquire ==
    \/ \E w \in Threads : GetProxyLock(w)
    \/ \E w \in Threads : GetProxyBody(w)
    \/ Tick

SpecAcquire == InitAcquire /\ [][NextAcquire]_vars

\* The manager shared by two threads that call its methods in any order, on a
\* file with one proxy
InitWorkers ==
    /\ InitCommon
    /\ source = SrcOne
    /\ main_pc = "driver"
    /\ proxies = read_proxies(source).proxies
    /\ InitThreads({1, 2}, "driver", "ready")

SpecWorkers == InitWorkers /\ [][NextPool]_vars

\* The tracker shared by two threads that call record_failure, each for any
\* search value
InitTracker ==
    /\ InitCommon
    /\ source = SrcOne
    /\ main_pc = "driver"
    /\ proxies = read_proxies(source).proxies
    /\ InitThreads({1, 2}, "driver", "ready")

NextTracker ==
    \/ \E w \in Threads : DrvRecordFailure(w)
    \/ \E w \in Threads : RecordCheck(w)
    \/ \E w \in Threads : RecordCreate(w)
    \/ \E w \in Threads : RecordAppend(w)

SpecTracker == InitTracker /\ [][NextTracker]_vars

\* One term in the hands of a worker thread, on a file with one proxy, while
\* a second thread bans and marks proxies as the workers of other terms do,
\* until the clock has reached the last of the instants it is read at (the
\* other terms are as many as the program maps, and their workers make a
\* bounded number of calls: see C17)
InitTask ==
    /\ banned_proxies = EmptyDict
    /\ lock = 0
    /\ now = Epoch
    /\ queue = << >>
    /\ future = [t \in Terms |-> IF t = 1 THEN "running" ELSE "none"]
    /\ failed_searches = EmptyDict
    /\ runs = [t \in Terms |-> 0]
    /\ source = SrcOne
    /\ main_pc = "join"
    /\ proxies = read_proxies(source).proxies
    /\ pc = [w \in {1, 2} |-> IF w = 1 THEN "call" ELSE "ready"]
    /\ caller = [w \in {1, 2} |-> IF w = 1 THEN "task" ELSE "driver"]
    /\ task = [w \in {1, 2} |-> IF w = 1 THEN 1 ELSE 0]
    /\ attempt = [w \in {1, 2} |-> 0]
    /\ tries = [w \in {1, 2} |-> 0]
    /\ proxy_key = [w \in {1, 2} |-> None]
    /\ delay = [w \in {1, 2} |-> 0]
    /\ wake = [w \in {1, 2} |-> 0]
    /\ err = [w \in {1, 2} |-> "none"]
    /\ bans = [w \in {1, 2} |-> {}]
    /\ op = [w \in {1, 2} |-> "none"]

\* the workers of the other terms have not finished yet
OthersAtWork == \E t \in Instants : t > now

NextTask ==
    \/ \E w \in Threads : CallBody(w)
    \/ \E w \in Threads : GetProxyLock(w)
    \/ \E w \in Threads : GetProxyBody(w)
    \/ \E w \in Threads : Retry(w)
    \/ \E w \in Threads : Wake(w)
    \/ \E w \in Threads : Execute(w)
    \/ \E w \in Threads : BanLock(w)
    \/ \E w \in Threads : BanBody(w)
    \/ \E w \in Threads : UpdateLock(w)
    \/ \E w \in Threads : UpdateBody(w)
    \/ \E w \in Threads : RecordCheck(w)
    \/ \E w \in Threads : RecordCreate(w)
    \/ \E w \in Threads : RecordAppend(w)
    \/ \E w \in Threads : OthersAtWork /\ DrvBanProxy(w)
    \/ \E w \in Threads : OthersAtWork /\ DrvUpdateProxy(w)
    \/ Tick
    \/ \E w \in Threads : SleepTick(w)

SpecTask == InitTask /\ [][NextTask]_vars

\* Three threads, each in one call of get_proxy, on a pool of three proxies,
\* none banned, each of them never used or marked as used at the start
\* (by an update_proxy or a get_proxy before the three calls)
InitRotate ==
    /\ InitCommon
    /\ source = SrcThree
    /\ main_pc = "driver"
    /\ \E f \in [DOMAIN read_proxies(source).proxies -> {0, Epoch}] :
         proxies = [i \in DOMAIN read_proxies(source).proxies |->
                      [key |-> read_proxies(source).proxies[i].key, val |-> f[i]]]
    /\ InitThreads({1, 2, 3}, "driver", "get_lock")

SpecRotate == InitRotate /\ [][NextAcquire]_vars

\* The program under the scheduling the interpreter and the clock give: a
\* thread that can take a step takes one, main goes on, and time passes
\* (each request returns or times out, each sleep ends)
Fairness ==
    /\ \A w \in 1 .. NumWorkers : WF_vars(TaskStep(w))
    /\ WF_vars(MainReadProxies \/ MainMap \/ MainJoin)
    /\ WF_vars(Tick \/ \E w \in 1 .. NumWorkers : SleepTick(w))

FairSpec == Spec /\ Fairness

\* the same scheduling for the worker thread of SpecTask; the second thread
\* need never call anything, but once inside a `with self.lock` block, where
\* nothing blocks, it goes on to leave it
FairTask ==
    /\ SpecTask
    /\ Fairness
    /\ \A w \in {1, 2} : WF_vars(GetProxyBody(w) \/ BanBody(w) \/ UpdateBody(w))

Finished(t) == future[t] \in {"done", "propagated"}

-----------------------------------------------------------------------------
(* The claims *)

\* the step in which get_proxy's body, run by w, ends
GetProxyEnds(w) == pc[w] = "get_body" /\ pc'[w] # "get_body"

\* the step in which get_proxy, called by w, returns a proxy
GetProxyReturns(w) == pc[w] = "get_body" /\ pc'[w] \in {"ready", "exec"}

LastUsed(p) == DictVal(proxies, p)

Position(p) == DictGet(proxies, p)

\* a proxy is available iff it has no bannedUntil or its bannedUntil is in
\* the past
NotBanned(p) == p \notin DOMAIN banned_proxies \/ banned_proxies[p] < now

Selectable == {p \in DictKeys(proxies) : NotBanned(p)}

\* C1: get_proxy returns the available proxy whose lastUsed is the least
\* among the available ones, and of several such the one that comes first
\* in the order the proxies were loaded in; with no available proxy it
\* raises.
C1_LeastRecentlyUsed ==
    [][\A w \in Threads :
         GetProxyEnds(w) =>
           IF Selectable = {}
           THEN pc'[w] = "retry"
           ELSE /\ GetProxyReturns(w)
                /\ proxy_key'[w] \in Selectable
                /\ \A q \in Selectable :
                     \/ LastUsed(proxy_key'[w]) < LastUsed(q)
                     \/ /\ LastUsed(proxy_key'[w]) = LastUsed(q)
                        /\ Position(proxy_key'[w]) <= Position(q)]_vars

\* C1, reached: get_proxy has returned b, used later than a, while a is banned
C1_Witness ==
    \E w \in Threads :
      /\ pc[w] = "ready" /\ op[w] = "get_proxy" /\ err[w] = "none"
      /\ proxy_key[w] = ProxyB
      /\ ProxyA \in DOMAIN banned_proxies
      /\ banned_proxies[ProxyA] >= now
      /\ banned_proxies[ProxyA] - BanDuration > LastUsed(ProxyA)
      /\ LastUsed(ProxyB) = now

\* C3: a proxy banned at T is not returned by get_proxy at any time t with
\* T <= t < T + 180, and can be returned at every t >= T + 180, T + 180
\* included: get_proxy then raises only if it also raises without the ban.
C3_BanWindow ==
    [][\A w \in Threads :
         GetProxyEnds(w) =>
           \A p \in DOMAIN banned_proxies \cap DictKeys(proxies) :
             LET T == banned_proxies[p] - 180 IN
               /\ (T <= now /\ now < T + 180)
                    => ~ (GetProxyReturns(w) /\ proxy_key'[w] = p)
               /\ now >= T + 180 => GetProxyReturns(w)]_vars

\* what C4 says get_dynamic_delay returns
CurrentlyBanned == {p \in DOMAIN banned_proxies : banned_proxies[p] >= now}

ClaimedDelay ==
    IF CurrentlyBanned = {}
    THEN 0
    ELSE Max(0, SetMin({banned_proxies[p] : p \in CurrentlyBanned}) - now)

\* C4: get_dynamic_delay returns 0 when no proxy is banned at the time, and
\* else max(0, u - now) for the least unban time u of the proxies banned at
\* the time.
C4_MinWaitUntilUnban ==
    [][\A w \in Threads :
         /\ DrvGetDynamicDelay(w) => delay'[w] = ClaimedDelay
         /\ (pc[w] = "retry" /\ pc'[w] = "sleep") => delay'[w] = ClaimedDelay]_vars

\* C7: the pool is {a, b}, both never used; a is banned at the start.  A
\* get_proxy at the start returns b, and one 181 s later, b used since,
\* returns a.
C7_Scenario ==
    [][\A w \in Threads :
         ( /\ GetProxyEnds(w)
           /\ DictKeys(proxies) = {ProxyA, ProxyB}
           /\ DOMAIN banned_proxies = {ProxyA}
           /\ banned_proxies[ProxyA] = Epoch + 180
           /\ LastUsed(ProxyA) = 0 )
         => /\ now = Epoch
               => GetProxyReturns(w) /\ proxy_key'[w] = ProxyB
            /\ (now = Epoch + 181 /\ LastUsed(ProxyB) > 0)
               => GetProxyReturns(w) /\ proxy_key'[w] = ProxyA]_vars

\* C7, reached: b was handed out at the start, a 181 s later
C7_Witness ==
    \E w \in Threads :
      /\ pc[w] = "ready" /\ op[w] = "get_proxy" /\ err[w] = "none"
      /\ proxy_key[w] = ProxyA
      /\ DOMAIN banned_proxies = {ProxyA}
      /\ banned_proxies[ProxyA] = Epoch + 180
      /\ now = Epoch + 181
      /\ LastUsed(ProxyA) = now
      /\ LastUsed(ProxyB) = Epoch

\* C2: three concurrent calls of get_proxy on three proxies never used and
\* not banned: no call raises, no proxy is returned to two callers, the
\* three calls return the three proxies, and the proxy a call returns has
\* the time of the call as its lastUsed.
C2_ThreeConcurrentAcquires ==
    /\ [](\A v, w \in Threads :
            (v # w /\ pc[v] = "ready" /\ pc[w] = "ready")
              => proxy_key[v] # proxy_key[w])
    /\ []((\A w \in Threads : pc[w] = "ready")
            => {proxy_key[w] : w \in Threads} = {ProxyA, ProxyB, ProxyC})
    /\ [][\A w \in Threads :
            GetProxyEnds(w) =>
              /\ GetProxyReturns(w)
              /\ DictVal(proxies', proxy_key'[w]) = now]_vars

\* C2, reached: the three calls have returned, the last thread served first
\* and the three proxies handed out at three different times
C2_Witness ==
    /\ \A w \in Threads : pc[w] = "ready"
    /\ proxy_key[3] = ProxyA
    /\ proxy_key[1] = ProxyC
    /\ LastUsed(ProxyA) < LastUsed(ProxyB)
    /\ LastUsed(ProxyB) < LastUsed(ProxyC)

\* the failure report of a term
Records(t) == IF t \in DOMAIN failed_searches THEN failed_searches[t] ELSE << >>

\* C5: the body of get_serp_results is never called more than 11 times for
\* a term; when the final error is raised to the caller it has been called
\* exactly 11 times and the report of the term holds exactly 11 entries,
\* with the attempt numbers 1 .. 11 in this order; and the 11th entry is the
\* moment the error is raised.
C5_ElevenAttempts ==
    \A t \in Terms :
      /\ runs[t] <= 11
      /\ Len(Records(t)) <= runs[t]
      /\ future[t] = "propagated"
           => /\ runs[t] = 11
              /\ Records(t) = [k \in 1 .. 11 |-> [attempt |-> k]]
      /\ Len(Records(t)) = 11 => future[t] = "propagated"

\* C5, reached: a term has failed for good
C5_Witness == \E t \in Terms : future[t] = "propagated" /\ runs[t] = 11

\* where a thread is inside get_proxy and its decorator
InGetProxy == {"get_lock", "get_body", "retry", "sleep"}

\* C6: the failures of get_proxy inside one call of the body are not seen by
\* the outer loop: while a thread is in get_proxy the term has one entry per
\* earlier attempt; only the 3rd failure in a row leaves get_proxy, and it
\* is recorded as one entry and uses up one attempt.
C6_InnerFailuresCountOnce ==
    /\ [](\A w \in Threads :
            /\ (caller[w] = "task"
                  /\ pc[w] \in InGetProxy \cup {"record", "create", "append"})
                 => /\ runs[task[w]] = attempt[w] + 1
                    /\ Len(Records(task[w])) = attempt[w]
            /\ (pc[w] \in {"record", "create", "append"}
                  /\ err[w] = "no_available_proxies")
                 => tries[w] = 3)
    /\ [][\A w \in Threads :
            /\ (pc[w] = "retry" /\ pc'[w] # "retry")
                 => /\ UNCHANGED <<failed_searches, attempt, runs, future>>
                    /\ pc'[w] = IF tries[w] = 2 THEN "record" ELSE "sleep"
            /\ (pc[w] = "append" /\ pc'[w] # "append"
                  /\ err[w] = "no_available_proxies")
                 => /\ Len(Records(task[w])') = Len(Records(task[w])) + 1
                    /\ \/ pc'[w] = "call" /\ attempt'[w] = attempt[w] + 1
                       \/ future'[task[w]] = "propagated"]_vars

\* C6, reached: get_proxy has failed 3 times in the 2nd call of the body, and
\* the term has 2 entries and goes on to its 3rd attempt
C6_Witness ==
    \E w \in Threads :
      /\ pc[w] = "call" /\ err[w] = "no_available_proxies" /\ tries[w] = 3
      /\ attempt[w] = 2
      /\ runs[task[w]] = 2
      /\ Len(Records(task[w])) = 2

Blank(line) == \A i \in DOMAIN line : line[i] \in Whitespace

NothingToLoad ==
    IF source = Missing THEN TRUE ELSE \A i \in DOMAIN source : Blank(source[i])

\* C8: when proxies.txt is missing or has no line that is not blank,
\* read_proxies returns False, main returns at once, no term is ever handed
\* to a worker and get_proxy is never called.
C8_NothingLoadedNothingDispatched ==
    NothingToLoad =>
      /\ main_pc \in {"start", "exited"}
      /\ proxies = << >>
      /\ queue = << >>
      /\ lock = 0
      /\ \A t \in Terms : future[t] = "none" /\ runs[t] = 0
      /\ \A w \in Threads : pc[w] = "idle" /\ proxy_key[w] = None

\* C8, reached: main has returned on a file of blank lines
C8_Witness == main_pc = "exited" /\ source = SrcBlank

\* the kinds of error of the specification
ErrorKind(e) ==
    CASE e = "no_available_proxies" -> "NoAvailableProxies"
      [] e = "keys_not_found" -> "CredentialExtractionFailed"
      [] e \in {"get_transport_error", "post_transport_error"} -> "RequestTransportError"
      [] e \in {"not_json", "json_not_dict"} -> "ResponseFormatInvalid"
      [] OTHER -> "other"

\* C10: when a call of the body has failed and the failure reaches the outer
\* loop, the thread has banned exactly the proxy it got for this call if the
\* answer was not well formed, and no proxy if the call failed otherwise.
C10_BanOnInvalidResponse ==
    \A w \in Threads :
      pc[w] = "record" =>
        IF ErrorKind(err[w]) = "ResponseFormatInvalid"
        THEN bans[w] = {proxy_key[w]}
        ELSE bans[w] = {}

\* C9: the step in which a term fails for good changes nothing for the
\* other terms: the queue, their futures and the threads that serve them are
\* as before; main leaves the `with` block only when every term has been
\* run and is done or has failed for good; and main does leave the block
\* (or returns before it, nothing loaded), so every term submitted is done or
\* has failed for good in the end.
C9_SiblingIsolation ==
    /\ [][\A t \in Terms :
            (future[t] # "propagated" /\ future'[t] = "propagated")
              => /\ queue' = queue
                 /\ \A u \in Terms \ {t} : future'[u] = future[u] /\ runs'[u] = runs[u]
                 /\ \A w \in Threads :
                      task[w] # t => pc'[w] = pc[w] /\ task'[w] = task[w]]_vars
    /\ [](main_pc = "joined"
            => \A t \in Terms : Finished(t) /\ runs[t] >= 1)
    /\ <>(main_pc \in {"exited", "joined"})

\* C9, reached: the first term has failed for good, the second, queued behind
\* it, is done, and main has left the block
C9_Witness ==
    /\ main_pc = "joined"
    /\ future[1] = "propagated"
    /\ future[2] = "done"
    /\ runs[1] = 11

\* where a thread is inside a `with self.lock` block
InLock == {"get_body", "ban_body", "update_body"}

\* where a thread waits to enter one
AtLock == {"get_lock", "ban_lock", "update_lock"}

\* C11: a thread holds the lock of the manager only inside the `with` blocks
\* of get_proxy, update_proxy and ban_proxy, never while it sleeps between
\* two tries of get_proxy or runs the requests; the lock is released when
\* get_proxy raises for want of a proxy; and while a thread sleeps, another
\* that no third thread keeps out can enter its `with` block.
C11_BackoffOutsideLock ==
    /\ [](\A w \in Threads :
            /\ lock = w => pc[w] \in InLock
            /\ pc[w] \in {"retry", "sleep", "exec"} => lock # w
            /\ pc[w] = "sleep" =>
                 \A v \in Threads \ {w} :
                   (pc[v] \in AtLock /\ \A u \in Threads \ {w, v} : lock # u)
                     => ENABLED (GetProxyLock(v) \/ UpdateLock(v) \/ BanLock(v)))
    /\ [][\A w \in Threads :
            (GetProxyEnds(w) /\ pc'[w] = "retry") => lock = w /\ lock' = 0]_vars

\* C11, reached: the first thread sleeps, its wait not over, after get_proxy
\* raised, and the second is inside get_proxy with the lock
C11_Witness ==
    /\ pc[1] = "sleep" /\ err[1] = "no_available_proxies" /\ wake[1] > now
    /\ pc[2] = "get_body" /\ lock = 2

\* C12: record_failure only ever appends: whatever the threads that call it
\* at the same time, for the same search value or not, a step leaves every
\* report with the entries it had, in their order, at its head, and the
\* step that records an entry puts it last in the report of its value.
C12_AppendOnly ==
    [][/\ \A t \in DOMAIN failed_searches :
            /\ t \in DOMAIN failed_searches'
            /\ Len(failed_searches'[t]) >= Len(failed_searches[t])
            /\ SubSeq(failed_searches'[t], 1, Len(failed_searches[t]))
                 = failed_searches[t]
       /\ \A w \in Threads :
            (pc[w] = "append" /\ pc'[w] # "append")
              => Records(task[w])' = Append(Records(task[w]),
                                            [attempt |-> attempt[w] + 1])]_vars

\* the step in which w reads or writes the state of the pool: the bodies of
\* get_proxy, update_proxy and ban_proxy, and the call of get_dynamic_delay
\* between two tries of get_proxy
Accesses(w) ==
    \/ pc[w] \in InLock /\ pc'[w] # pc[w]
    \/ pc[w] = "retry" /\ pc'[w] = "sleep"

\* C13: a thread reads or writes the state of the pool only while it holds
\* the lock, so no thread reads it while another is inside a `with` block
\* of the manager.
C13_AccessUnderLock ==
    [][\A w \in Threads :
         Accesses(w) =>
           /\ lock = w
           /\ \A v \in Threads \ {w} : ~ (lock = v /\ pc[v] \in InLock)]_vars

\* where a thread is once get_proxy has returned a proxy to the body
AfterAcquire == {"exec", "update_lock", "update_body", "ban_lock", "ban_body"}

\* where a thread is inside record_failure
InRecord == {"record", "create", "append"}

\* the step of w that leaves the place `at`
Leaves(w, at) == pc[w] = at /\ pc'[w] # at

\* C14: a call of the body starts with get_proxy; the requests are made only
\* with a proxy this call got, and a call in which get_proxy raised goes to
\* record_failure without having made them; a call whose requests succeed
\* goes on to update_proxy, which marks the proxy this call got, records no
\* failure and ends the term, run k times with the k - 1 entries 1 .. k - 1,
\* once and for all; a call that fails makes one entry, followed by the next
\* call or, after the 11th, by the error being raised.
C14_AttemptStateMachine ==
    /\ [](\A w \in Threads :
            /\ pc[w] \in AfterAcquire
                 => proxy_key[w] \in DictKeys(proxies) /\ tries[w] < max_tries
            /\ (pc[w] \in InRecord /\ err[w] = "no_available_proxies")
                 => proxy_key[w] = None /\ bans[w] = {}
            /\ pc[w] \in InRecord => err[w] # "none")
    /\ [](\A t \in Terms :
            future[t] = "done"
              => /\ runs[t] >= 1
                 /\ Records(t) = [k \in 1 .. runs[t] - 1 |-> [attempt |-> k]])
    /\ [][\A w \in Threads :
            /\ Leaves(w, "call") => pc'[w] = "get_lock"
            /\ Leaves(w, "get_body") => pc'[w] \in {"exec", "retry"}
            /\ Leaves(w, "retry") => pc'[w] \in {"sleep", "record"}
            /\ Leaves(w, "exec") =>
                 IF err'[w] = "none"
                 THEN pc'[w] = "update_lock"
                 ELSE pc'[w] \in {"ban_lock", "record"}
            /\ Leaves(w, "ban_body") => pc'[w] = "record"
            /\ Leaves(w, "update_body") =>
                 /\ proxies' = DictSet(proxies, proxy_key[w], now)
                 /\ future[task[w]] = "running" /\ future'[task[w]] = "done"
                 /\ pc'[w] = "idle"
                 /\ UNCHANGED <<failed_searches, runs>>
            /\ Leaves(w, "append") =>
                 /\ Len(Records(task[w])') = Len(Records(task[w])) + 1
                 /\ IF attempt[w] < retry_tries
                    THEN pc'[w] = "call" /\ attempt'[w] = attempt[w] + 1
                    ELSE pc'[w] = "idle" /\ future'[task[w]] = "propagated"]_vars
    /\ [][\A t \in Terms :
            Finished(t) => /\ future'[t] = future[t]
                           /\ runs'[t] = runs[t]
                           /\ Records(t)' = Records(t)]_vars

\* C14, reached: a term is done by its 3rd call, with two entries, and its
\* thread has marked the proxy it got
C14_Witness ==
    \E t \in Terms :
      /\ future[t] = "done"
      /\ runs[t] = 3
      /\ Len(Records(t)) = 2
      /\ \E w \in Threads :
           task[w] = t /\ pc[w] = "idle" /\ LastUsed(proxy_key[w]) = now

\* C15: after each of the first two failures of a call of get_proxy the
\* thread sleeps for what get_dynamic_delay gives on the bans and the clock
\* as they are then, whatever the other threads have banned since the
\* failure before; the sleep lasts that long at least; a call sleeps twice
\* at most, and after its 3rd failure it raises without a sleep.
C15_BackoffRecomputed ==
    /\ [](\A w \in Threads :
            /\ tries[w] <= max_tries
            /\ pc[w] = "sleep" => tries[w] \in {1, 2})
    /\ [][\A w \in Threads :
            /\ Leaves(w, "retry") =>
                 IF tries[w] < 2
                 THEN /\ pc'[w] = "sleep"
                      /\ delay'[w] = get_dynamic_delay(banned_proxies, now)
                      /\ wake'[w] = now + delay'[w]
                 ELSE /\ pc'[w] \in {"ready", "record"}
                      /\ UNCHANGED <<delay, wake>>
            /\ Leaves(w, "sleep") => now >= wake[w] /\ pc'[w] = "get_lock"]_vars

\* C15, reached: the first thread sleeps for the second time, for 1 s, as
\* the second thread has banned the proxy again while it slept the first time
C15_Witness ==
    /\ pc[1] = "sleep" /\ tries[1] = 2 /\ delay[1] = 1
    /\ now = Epoch + BanDuration
    /\ ProxyA \in DOMAIN banned_proxies
    /\ banned_proxies[ProxyA] = Epoch + 1 + BanDuration
    /\ op[2] = "ban_proxy" /\ bans[2] = {ProxyA}

\* the proxies of the pool, in their order
KeysOf(P) == [i \in DOMAIN P |-> P[i].key]

\* the lastUsed of every proxy but p is as before
OthersKeepLastUsed(p) ==
    \A q \in DictKeys(proxies) \ {p} : DictVal(proxies', q) = LastUsed(q)

\* the ban of every proxy but p is as before
OthersKeepBan(p) ==
    /\ DOMAIN banned_proxies' \ {p} = DOMAIN banned_proxies \ {p}
    /\ \A q \in DOMAIN banned_proxies \ {p} :
         banned_proxies'[q] = banned_proxies[q]

Min(a, b) == IF a <= b THEN a ELSE b

\* the threads that serve a term
Workers == {w \in Threads : caller[w] = "task"}

\* the most tries of get_proxy a worker can have made for its term so far: 3
\* in each earlier call of the body, and in this one the failures so far and
\* the try that is under way
MostAcquires(w) == max_tries * attempt[w] + Min(tries[w] + 1, max_tries)

\* the most sleeps it can have made: 2 in each earlier call, and in this one
\* one for each failure but the 3rd
MostSleeps(w) == (max_tries - 1) * attempt[w] + Min(tries[w], max_tries - 1)

\* C17: a term that a worker has taken is done or fails for good in the end,
\* whatever the other thread does to the pool, given that every request
\* returns or raises and every sleep ends.  The body is called 11 times at
\* most.  Within one call `tries` counts the failures of get_proxy: a try is
\* made with 0, 1 or 2 failures behind it, each failure adds one, a sleep
\* follows the 1st and the 2nd only and is followed by the next try; so a
\* call makes 3 tries and 2 sleeps at most, and a term 33 and 22.
C17_TaskTerminates ==
    /\ \A t \in Terms : [](future[t] = "running" => <>Finished(t))
    /\ [](\A t \in Terms : runs[t] <= retry_tries + 1)
    /\ [](\A w \in Workers :
            /\ attempt[w] <= retry_tries
            /\ tries[w] <= max_tries
            /\ pc[w] \in {"get_lock", "get_body"} => tries[w] <= max_tries - 1
            /\ pc[w] = "sleep" => tries[w] \in 1 .. max_tries - 1
            /\ MostAcquires(w) <= 33
            /\ MostSleeps(w) <= 22)
    /\ [][\A w \in Workers :
            /\ (pc'[w] = "get_lock" /\ pc[w] # "get_lock")
                 => \/ pc[w] = "sleep" /\ tries'[w] = tries[w]
                    \/ /\ pc[w] = "call" /\ tries'[w] = 0
                       /\ runs'[task[w]] = runs[task[w]] + 1
            /\ (pc'[w] = "sleep" /\ pc[w] # "sleep")
                 => pc[w] = "retry" /\ tries'[w] = tries[w] + 1
            /\ Leaves(w, "get_lock") => pc'[w] = "get_body" /\ tries'[w] = tries[w]
            /\ Leaves(w, "get_body") => tries'[w] = tries[w]
            /\ Leaves(w, "retry") => tries'[w] = tries[w] + 1
            /\ tries'[w] # tries[w] => pc[w] \in {"call", "retry"}
            /\ attempt'[w] # attempt[w]
                 => pc[w] = "append" /\ attempt'[w] = attempt[w] + 1]_vars

\* C17, reached: the term has failed for good in its 11th call, get_proxy
\* having raised for the 3rd time, after the other thread banned the proxy
C17_Witness ==
    /\ future[1] = "propagated"
    /\ runs[1] = 11
    /\ tries[1] = 3 /\ err[1] = "no_available_proxies"
    /\ op[2] = "ban_proxy"

\* the time the soonest ban ends
SoonestUnban == SetMin({banned_proxies[p] : p \in DOMAIN banned_proxies})

\* C18: when get_proxy has failed, every proxy being banned, and the thread
\* has slept for just what get_dynamic_delay gave, no proxy having been
\* banned since, the next try is made at the time the soonest ban ends and
\* returns a proxy.  (With one thread calling, no ban is set during a call
\* of get_proxy, and a try made after a failure at the very time the soonest
\* ban ends is made right at the end of the sleep.)
C18_BackoffSufficient ==
    [][\A w \in Threads :
         ( /\ GetProxyEnds(w)
           /\ tries[w] >= 1
           /\ DOMAIN banned_proxies # {}
           /\ now = SoonestUnban )
         => GetProxyReturns(w)]_vars

\* the threads whose call of get_proxy has returned
Returned == {v \in Threads : pc[v] = "ready" /\ proxy_key[v] # None}

\* the time of the call that returned its proxy to v
AcquiredAt(v) == LastUsed(proxy_key[v])

\* the clock has gone on between the calls that have returned, and since
ClockAdvanced ==
    /\ \A v \in Returned : AcquiredAt(v) < now
    /\ \A u, v \in Returned : u # v => AcquiredAt(u) # AcquiredAt(v)

\* the time of the first of the calls: now, when none has returned yet
FirstCall == IF Returned = {} THEN now ELSE SetMin({AcquiredAt(v) : v \in Returned})

\* the proxies no call has returned yet were last marked before the first of
\* the calls
MarkedBefore ==
    \A q \in DictKeys(proxies) \ {proxy_key[v] : v \in Returned} :
      LastUsed(q) < FirstCall

\* C19 as stated: n proxies, none banned; of n calls of get_proxy in a row,
\* made by any threads, the clock going on between them and no update_proxy
\* in between, none returns a proxy another has returned.
C19_FairRotation ==
    [][\A w \in Threads :
         (GetProxyReturns(w) /\ ClockAdvanced)
           => \A v \in Returned : proxy_key'[w] # proxy_key[v]]_vars

\* C19, amended: the same, for calls of which the first is made later than
\* every proxy was last marked as used.
C19_FairRotationAmended ==
    [][\A w \in Threads :
         (GetProxyReturns(w) /\ ClockAdvanced /\ MarkedBefore)
           => \A v \in Returned : proxy_key'[w] # proxy_key[v]]_vars

\* C19, reached: on a pool where a and c had been used and b had not, the
\* three calls have returned b, then a, then c, each at a time of its own
C19_Witness ==
    /\ \A w \in Threads : pc[w] = "ready"
    /\ proxy_key[1] = ProxyB /\ proxy_key[2] = ProxyA /\ proxy_key[3] = ProxyC
    /\ LastUsed(ProxyB) = Epoch + 1
    /\ LastUsed(ProxyB) < LastUsed(ProxyA)
    /\ LastUsed(ProxyA) < LastUsed(ProxyC)

\* C20: a get_proxy that raises writes nothing to the pool: the body that
\* finds no proxy available, the except block after each failure, the 3rd
\* included, and the sleep and the taking of the lock between two tries
\* leave every lastUsed and every ban as they are.
C20_FailedAcquireKeepsPool ==
    [][\A w \in Threads :
         /\ (GetProxyEnds(w) /\ ~ GetProxyReturns(w))
              => pc'[w] = "retry" /\ UNCHANGED poolVars
         /\ Leaves(w, "retry") => UNCHANGED poolVars
         /\ Leaves(w, "sleep") => UNCHANGED poolVars
         /\ Leaves(w, "get_lock") => UNCHANGED poolVars]_vars

\* C20, reached: get_proxy has raised after its 3rd failure, on a pool with
\* both proxies banned and one of them used before
C20_Witness ==
    \E w \in Threads :
      /\ pc[w] = "ready" /\ op[w] = "get_proxy"
      /\ err[w] = "no_available_proxies" /\ tries[w] = max_tries
      /\ DOMAIN banned_proxies = {ProxyA, ProxyB}
      /\ LastUsed(ProxyA) = 0
      /\ LastUsed(ProxyB) > 0

=============================================================================
